---- MODULE Spec2Model ----
(***************************************************************************)
(* Model of v8::internal::interpreter::ConstantArrayBuilder                *)
(* (src/interpreter/constant-array-builder.cc): three operand-width slices *)
(* of constants, the identity-keyed map of constants to indices, and the   *)
(* reservation protocol.  Every DCHECK of the code is a guard of the       *)
(* action it belongs to: a behaviour of Spec is a sequence of calls that   *)
(* respects the preconditions.                                             *)
(***************************************************************************)
EXTENDS Integers, Sequences, FiniteSets, TLC

VARIABLES constants_, reserved_, constants_map_, last

vars == <<constants_, reserved_, constants_map_, last>>

(* ------------------------------ bounds --------------------------------- *)

\* Bits of a byte operand, scaled down from 8; a short operand has twice
\* and a quad operand four times as many.
kBitsPerByte == 1

\* Number of distinct constant identities the generator passes in.
NumValues == 2

\* Largest number of slots (all slices together) filled in one behaviour.
MaxConstants == 3

\* Largest number of reservations outstanding at one time.
MaxReserved == 3

(* ----------------------------- constants ------------------------------- *)

\* kMaxUInt32, the largest index a quad operand encodes
kMaxUInt32 == (2 ^ (4 * kBitsPerByte)) - 1

k8BitCapacity == 2 ^ kBitsPerByte

k16BitCapacity == (2 ^ (2 * kBitsPerByte)) - k8BitCapacity

k32BitCapacity == kMaxUInt32 - k16BitCapacity - k8BitCapacity + 1

\* The sentinel of unfilled slots; legitimate constants are 1..NumValues.
the_hole_value == 0

Values == 1 .. NumValues

Objects == Values \cup {the_hole_value}

\* idx_slice_[0..2]
Slices == 0 .. 2

OperandSizes == {"kByte", "kShort", "kQuad"}

(* ------------------------- ConstantArraySlice -------------------------- *)

start_index(i) ==
  CASE i = 0 -> 0
    [] i = 1 -> k8BitCapacity
    [] i = 2 -> k8BitCapacity + k16BitCapacity

capacity(i) ==
  CASE i = 0 -> k8BitCapacity
    [] i = 1 -> k16BitCapacity
    [] i = 2 -> k32BitCapacity

operand_size(i) ==
  CASE i = 0 -> "kByte"
    [] i = 1 -> "kShort"
    [] i = 2 -> "kQuad"

\* size() of a slice holding the constants cs
SliceSize(cs, i) == Len(cs[i])

\* available() = capacity() - reserved() - size()
available(cs, rs, i) == capacity(i) - rs[i] - SliceSize(cs, i)

max_index(i) == start_index(i) + capacity(i) - 1

\* Reserve(): DCHECK_GT(available(), 0); reserved_++
ReservePre(cs, rs, i) == available(cs, rs, i) > 0

Reserve(rs, i) == [rs EXCEPT ![i] = @ + 1]

\* Unreserve that forgets the decrement
UnreserveKeeps(rs, i) == rs

\* Unreserve(): DCHECK_GT(reserved_, 0); reserved_--
UnreservePre(rs, i) == rs[i] > 0

Unreserve(rs, i) == [rs EXCEPT ![i] = @ - 1]

\* Allocate(object): DCHECK_GT(available(), 0); DCHECK_LT(index, capacity())
AllocatePre(cs, rs, i) ==
  /\ available(cs, rs, i) > 0
  /\ SliceSize(cs, i) < capacity(i)

\* Allocate returning the position inside the slice, start_index() left out
AllocateIndexLocal(cs, i) == SliceSize(cs, i)

\* Allocate reading constants_.size() after the push_back
AllocateIndexAfter(cs, i) == SliceSize(cs, i) + 1 + start_index(i)

\* the index Allocate returns
AllocateIndexOf(cs, i) == SliceSize(cs, i) + start_index(i)

\* constants_.push_back(object)
Allocate(cs, i, object) == [cs EXCEPT ![i] = Append(@, object)]

\* ConstantArraySlice::At: the two DCHECKs
SliceAtPre(cs, i, index) ==
  /\ index >= start_index(i)
  /\ index < start_index(i) + SliceSize(cs, i)

SliceAt(cs, i, index) == cs[i][index - start_index(i) + 1]

\* InsertAt writing the first slot of the slice, whatever the index
InsertAtFirst(cs, i, index, object) ==
  [cs EXCEPT ![i] = [@ EXCEPT ![1] = object]]

\* ConstantArraySlice::InsertAt
InsertAt(cs, i, index, object) ==
  [cs EXCEPT ![i] = [@ EXCEPT ![index - start_index(i) + 1] = object]]

\* no two positions of the slice hold the same object
AllElementsAreUnique(cs, i) ==
  \A p, q \in 1 .. Len(cs[i]) : p # q => cs[i][p] # cs[i][q]

(* ------------------------ ConstantArrayBuilder ------------------------- *)

\* the indices of the slots filled so far, in any slice
Allocated(cs) ==
  UNION {start_index(i) .. (start_index(i) + SliceSize(cs, i) - 1) :
           i \in Slices}

\* size() scanning the slices narrow to wide
sizeNarrowFirst(cs) ==
  IF SliceSize(cs, 0) > 0 THEN start_index(0) + SliceSize(cs, 0)
  ELSE IF SliceSize(cs, 1) > 0 THEN start_index(1) + SliceSize(cs, 1)
  ELSE IF SliceSize(cs, 2) > 0 THEN start_index(2) + SliceSize(cs, 2)
  ELSE SliceSize(cs, 0)

\* size(): the widest slice that is not empty decides
size(cs) ==
  IF SliceSize(cs, 2) > 0 THEN start_index(2) + SliceSize(cs, 2)
  ELSE IF SliceSize(cs, 1) > 0 THEN start_index(1) + SliceSize(cs, 1)
  ELSE SliceSize(cs, 0)

\* IndexToSlice: the first slice whose max_index is not below index
IndexToSlice(index) ==
  IF index <= max_index(0) THEN 0
  ELSE IF index <= max_index(1) THEN 1
  ELSE 2

\* At(index): the value returned
At(cs, index) ==
  LET slice == IndexToSlice(index)
  IN  IF index < start_index(slice) + SliceSize(cs, slice)
      THEN SliceAt(cs, slice, index)
      ELSE the_hole_value

\* At(index): the DCHECKs passed on the way
AtDChecks(cs, index) ==
  LET slice == IndexToSlice(index)
  IN  IF index < start_index(slice) + SliceSize(cs, slice)
      THEN SliceAtPre(cs, slice, index)
      ELSE index < capacity(slice)

\* base::bits::IsPowerOfTwo32
IsPowerOfTwo32(n) == \E e \in 0 .. 31 : n = 2 ^ e

Min(a, b) == IF a < b THEN a ELSE b

\* One turn of the loop of ToFixedArray over idx_slice_: acc.array is the
\* filled part of fixed_array (array_index = Len(acc.array)), acc.dchecks
\* whether every DCHECK passed so far, acc.done whether the loop has left.
ToFixedArraySlice(cs, length, acc, i) ==
  IF acc.done \/ Len(acc.array) = length
  THEN [acc EXCEPT !.done = TRUE]
  ELSE
    LET array_index == Len(acc.array)
        copied == acc.array \o cs[i]
        rest == length - Len(copied)
        room == capacity(i) - SliceSize(cs, i)
        \* a negative int cast to size_t is larger than any capacity
        padding == IF rest < 0 THEN room ELSE Min(rest, room)
    IN  [array |-> copied \o [k \in 1 .. padding |-> the_hole_value],
         dchecks |-> /\ acc.dchecks
                     /\ (array_index = 0 \/ IsPowerOfTwo32(array_index))
                     /\ AllElementsAreUnique(cs, i)
                     /\ Len(copied) <= length,
         done |-> FALSE]

\* ToFixedArray(): the array built and whether all its DCHECKs passed
ToFixedArray(cs) ==
  LET length == size(cs)
      a0 == [array |-> <<>>, dchecks |-> TRUE, done |-> FALSE]
      a1 == ToFixedArraySlice(cs, length, a0, 0)
      a2 == ToFixedArraySlice(cs, length, a1, 1)
      a3 == ToFixedArraySlice(cs, length, a2, 2)
  IN  [array |-> a3.array,
       dchecks |-> a3.dchecks /\ Len(a3.array) = length]

\* AllocateIndex: whether some slice has room (otherwise UNREACHABLE)
AllocateIndexPre(cs, rs) == \E i \in Slices : available(cs, rs, i) > 0

\* AllocateIndex with the loop starting at idx_slice_[1]
AllocateIndexSliceFromShort(cs, rs) ==
  IF available(cs, rs, 1) > 0 THEN 1 ELSE 2

\* AllocateIndex: the first slice, narrow to wide, with available() > 0
AllocateIndexSlice(cs, rs) ==
  IF available(cs, rs, 0) > 0 THEN 0
  ELSE IF available(cs, rs, 1) > 0 THEN 1
  ELSE 2

\* OperandSizeToSlice
OperandSizeToSlice(os) ==
  CASE os = "kByte" -> 0
    [] os = "kShort" -> 1
    [] os = "kQuad" -> 2

(* ------------------------------ the state ------------------------------ *)

TotalSize(cs) == SliceSize(cs, 0) + SliceSize(cs, 1) + SliceSize(cs, 2)

TotalReserved(rs) == rs[0] + rs[1] + rs[2]

\* the call that made the last step, its arguments and what it returned
Call(op, os, index, object, ret, array) ==
  [op |-> op, operand_size |-> os, index |-> index, object |-> object,
   ret |-> ret, array |-> array]

NoIndex == 0 - 1

Init ==
  /\ constants_ = [i \in Slices |-> <<>>]
  /\ reserved_ = [i \in Slices |-> 0]
  /\ constants_map_ = <<>>
  /\ last = Call("none", "kNone", NoIndex, the_hole_value, NoIndex, <<>>)

(* ----------------------------- operations ------------------------------ *)

\* AllocateEntry(Handle<Object>) registering size() of the builder, taken
\* before the allocation, in place of the index AllocateIndex returns
AllocateEntryObjectRegistersSize(rs, object) ==
  LET slice == AllocateIndexSlice(constants_, rs)
  IN  /\ AllocateIndexPre(constants_, rs)
      /\ AllocatePre(constants_, rs, slice)
      /\ TotalSize(constants_) < MaxConstants
      /\ constants_' = Allocate(constants_, slice, object)
      /\ constants_map_' = (object :> size(constants_)) @@ constants_map_

\* AllocateEntry(Handle<Object>): AllocateIndex, then register the index
AllocateEntryObject(rs, object) ==
  LET slice == AllocateIndexSlice(constants_, rs)
      index == AllocateIndexOf(constants_, slice)
  IN  /\ AllocateIndexPre(constants_, rs)
      /\ AllocatePre(constants_, rs, slice)
      /\ TotalSize(constants_) < MaxConstants
      /\ constants_' = Allocate(constants_, slice, object)
      /\ constants_map_' = (object :> index) @@ constants_map_

\* Insert that never looks the object up and allocates every time
InsertNoLookup(object) ==
  /\ AllocateEntryObject(reserved_, object)
  /\ last' = Call("Insert", "kNone", NoIndex, object,
                  constants_map_'[object], <<>>)
  /\ UNCHANGED reserved_

\* Insert(object)
Insert(object) ==
  /\ IF object \in DOMAIN constants_map_
     THEN /\ UNCHANGED <<constants_, constants_map_>>
          /\ last' = Call("Insert", "kNone", NoIndex, object,
                          constants_map_[object], <<>>)
     ELSE /\ AllocateEntryObject(reserved_, object)
          /\ last' = Call("Insert", "kNone", NoIndex, object,
                          constants_map_'[object], <<>>)
  /\ UNCHANGED reserved_

\* AllocateEntry(): a slot holding the hole, not registered in the map
AllocateEntry ==
  LET slice == AllocateIndexSlice(constants_, reserved_)
      index == AllocateIndexOf(constants_, slice)
  IN  /\ AllocateIndexPre(constants_, reserved_)
      /\ AllocatePre(constants_, reserved_, slice)
      /\ TotalSize(constants_) < MaxConstants
      /\ constants_' = Allocate(constants_, slice, the_hole_value)
      /\ last' = Call("AllocateEntry", "kNone", NoIndex, the_hole_value,
                      index, <<>>)
      /\ UNCHANGED <<reserved_, constants_map_>>

\* InsertAllocatedEntry without the check that the slot holds the hole
InsertAllocatedEntryUnchecked(index, object) ==
  LET slice == IndexToSlice(index)
  IN  /\ SliceAtPre(constants_, slice, index)
      /\ constants_' = InsertAt(constants_, slice, index, object)
      /\ last' = Call("InsertAllocatedEntry", "kNone", index, object,
                      NoIndex, <<>>)
      /\ UNCHANGED <<reserved_, constants_map_>>

\* InsertAllocatedEntry that registers the value at the index it fills
InsertAllocatedEntryRegisters(index, object) ==
  LET slice == IndexToSlice(index)
  IN  /\ AtDChecks(constants_, index)
      /\ At(constants_, index) = the_hole_value
      /\ SliceAtPre(constants_, slice, index)
      /\ constants_' = InsertAt(constants_, slice, index, object)
      /\ constants_map_' = (object :> index) @@ constants_map_
      /\ last' = Call("InsertAllocatedEntry", "kNone", index, object,
                      NoIndex, <<>>)
      /\ UNCHANGED reserved_

\* InsertAllocatedEntry(index, object)
InsertAllocatedEntry(index, object) ==
  LET slice == IndexToSlice(index)
  IN  /\ AtDChecks(constants_, index)
      /\ At(constants_, index) = the_hole_value
      /\ SliceAtPre(constants_, slice, index)
      /\ constants_' = InsertAt(constants_, slice, index, object)
      /\ last' = Call("InsertAllocatedEntry", "kNone", index, object,
                      NoIndex, <<>>)
      /\ UNCHANGED <<reserved_, constants_map_>>

\* CreateReservedEntry()
CreateReservedEntry ==
  LET slice == AllocateIndexSlice(constants_, reserved_)
  IN  /\ AllocateIndexPre(constants_, reserved_)
      /\ ReservePre(constants_, reserved_, slice)
      /\ TotalReserved(reserved_) < MaxReserved
      /\ reserved_' = Reserve(reserved_, slice)
      /\ reserved_'[slice] <= capacity(slice) - SliceSize(constants_, slice)
      /\ last' = Call("CreateReservedEntry", operand_size(slice), NoIndex,
                      the_hole_value, NoIndex, <<>>)
      /\ UNCHANGED <<constants_, constants_map_>>

\* DiscardReservedEntry(operand_size)
DiscardReservedEntry(os) ==
  LET slice == OperandSizeToSlice(os)
  IN  /\ UnreservePre(reserved_, slice)
      /\ reserved_' = Unreserve(reserved_, slice)
      /\ last' = Call("DiscardReservedEntry", os, NoIndex, the_hole_value,
                      NoIndex, <<>>)
      /\ UNCHANGED <<constants_, constants_map_>>

\* CommitReservedEntry that reuses a registered index however large it is
CommitReservedEntryReuses(os, object) ==
  LET slice == OperandSizeToSlice(os)
      rs == Unreserve(reserved_, slice)
  IN  /\ UnreservePre(reserved_, slice)
      /\ reserved_' = rs
      /\ IF object \notin DOMAIN constants_map_
         THEN AllocateEntryObject(rs, object)
         ELSE UNCHANGED <<constants_, constants_map_>>
      /\ last' = Call("CommitReservedEntry", os, NoIndex, object,
                      constants_map_'[object], <<>>)

\* CommitReservedEntry that allocates without releasing the reservation
CommitReservedEntryKeeps(os, object) ==
  LET slice == OperandSizeToSlice(os)
  IN  /\ UnreservePre(reserved_, slice)
      /\ UNCHANGED reserved_
      /\ TotalSize(constants_) < MaxConstants
      /\ SliceSize(constants_, slice) < capacity(slice)
      /\ constants_' = Allocate(constants_, slice, object)
      /\ constants_map_' =
           (object :> AllocateIndexOf(constants_, slice)) @@ constants_map_
      /\ last' = Call("CommitReservedEntry", os, NoIndex, object,
                      constants_map_'[object], <<>>)

\* CommitReservedEntry that stores the second copy and leaves the map as it is
CommitReservedEntryNoRepoint(os, object) ==
  LET slice == OperandSizeToSlice(os)
      rs == Unreserve(reserved_, slice)
  IN  /\ UnreservePre(reserved_, slice)
      /\ reserved_' = rs
      /\ IF object \notin DOMAIN constants_map_
         THEN /\ AllocateEntryObject(rs, object)
              /\ last' = Call("CommitReservedEntry", os, NoIndex, object,
                              constants_map_'[object], <<>>)
         ELSE IF constants_map_[object] > max_index(slice)
         THEN /\ AllocatePre(constants_, rs, slice)
              /\ TotalSize(constants_) < MaxConstants
              /\ constants_' = Allocate(constants_, slice, object)
              /\ UNCHANGED constants_map_
              /\ last' = Call("CommitReservedEntry", os, NoIndex, object,
                              AllocateIndexOf(constants_, slice), <<>>)
         ELSE /\ UNCHANGED <<constants_, constants_map_>>
              /\ last' = Call("CommitReservedEntry", os, NoIndex, object,
                              constants_map_[object], <<>>)

\* CommitReservedEntry that allocates first and releases the reservation last
CommitReservedEntryAllocatesFirst(os, object) ==
  LET slice == OperandSizeToSlice(os)
  IN  /\ UnreservePre(reserved_, slice)
      /\ IF object \notin DOMAIN constants_map_
         THEN AllocateEntryObject(reserved_, object)
         ELSE IF constants_map_[object] > max_index(slice)
         THEN /\ AllocatePre(constants_, reserved_, slice)
              /\ TotalSize(constants_) < MaxConstants
              /\ constants_' = Allocate(constants_, slice, object)
              /\ constants_map_' =
                   (object :> AllocateIndexOf(constants_, slice))
                     @@ constants_map_
         ELSE UNCHANGED <<constants_, constants_map_>>
      /\ reserved_' = Unreserve(reserved_, slice)
      /\ last' = Call("CommitReservedEntry", os, NoIndex, object,
                      constants_map_'[object], <<>>)

\* CommitReservedEntry that copies every registered value into the reserved
\* slice, without comparing its index with max_index()
CommitReservedEntryAlwaysCopies(os, object) ==
  LET slice == OperandSizeToSlice(os)
      rs == Unreserve(reserved_, slice)
  IN  /\ UnreservePre(reserved_, slice)
      /\ reserved_' = rs
      /\ IF object \notin DOMAIN constants_map_
         THEN AllocateEntryObject(rs, object)
         ELSE /\ AllocatePre(constants_, rs, slice)
              /\ TotalSize(constants_) < MaxConstants
              /\ constants_' = Allocate(constants_, slice, object)
              /\ constants_map_' =
                   (object :> AllocateIndexOf(constants_, slice))
                     @@ constants_map_
      /\ last' = Call("CommitReservedEntry", os, NoIndex, object,
                      constants_map_'[object], <<>>)

\* CommitReservedEntry comparing the registered index with start_index() of
\* the reserved slice in place of max_index()
CommitReservedEntryComparesStart(os, object) ==
  LET slice == OperandSizeToSlice(os)
      rs == Unreserve(reserved_, slice)
  IN  /\ UnreservePre(reserved_, slice)
      /\ reserved_' = rs
      /\ IF object \notin DOMAIN constants_map_
         THEN AllocateEntryObject(rs, object)
         ELSE IF constants_map_[object] >= start_index(slice)
         THEN /\ AllocatePre(constants_, rs, slice)
              /\ TotalSize(constants_) < MaxConstants
              /\ constants_' = Allocate(constants_, slice, object)
              /\ constants_map_' =
                   (object :> AllocateIndexOf(constants_, slice))
                     @@ constants_map_
         ELSE UNCHANGED <<constants_, constants_map_>>
      /\ last' = Call("CommitReservedEntry", os, NoIndex, object,
                      constants_map_'[object], <<>>)

\* CommitReservedEntry(operand_size, object)
CommitReservedEntry(os, object) ==
  LET slice == OperandSizeToSlice(os)
      rs == Unreserve(reserved_, slice)
  IN  /\ UnreservePre(reserved_, slice)
      /\ reserved_' = rs
      /\ IF object \notin DOMAIN constants_map_
         THEN AllocateEntryObject(rs, object)
         ELSE IF constants_map_[object] > max_index(slice)
         THEN /\ AllocatePre(constants_, rs, slice)
              /\ TotalSize(constants_) < MaxConstants
              /\ constants_' = Allocate(constants_, slice, object)
              /\ constants_map_' =
                   (object :> AllocateIndexOf(constants_, slice))
                     @@ constants_map_
         ELSE UNCHANGED <<constants_, constants_map_>>
      /\ last' = Call("CommitReservedEntry", os, NoIndex, object,
                      constants_map_'[object], <<>>)

\* ToFixedArray(): the builder is left as it is
CallToFixedArray ==
  LET result == ToFixedArray(constants_)
  IN  /\ result.dchecks
      /\ last' = Call("ToFixedArray", "kNone", NoIndex, the_hole_value,
                      NoIndex, result.array)
      /\ UNCHANGED <<constants_, reserved_, constants_map_>>

Next ==
  \/ \E object \in Values : Insert(object)
  \/ AllocateEntry
  \/ \E index \in Allocated(constants_), object \in Values :
       InsertAllocatedEntry(index, object)
  \/ CreateReservedEntry
  \/ \E os \in OperandSizes : DiscardReservedEntry(os)
  \/ \E os \in OperandSizes, object \in Values :
       CommitReservedEntry(os, object)
  \/ CallToFixedArray

Spec == Init /\ [][Next]_vars

\* The builder driven through Insert and the reservation protocol alone:
\* no AllocateEntry() and no InsertAllocatedEntry.
NextReservations ==
  \/ \E object \in Values : Insert(object)
  \/ CreateReservedEntry
  \/ \E os \in OperandSizes : DiscardReservedEntry(os)
  \/ \E os \in OperandSizes, object \in Values :
       CommitReservedEntry(os, object)
  \/ CallToFixedArray

SpecReservations == Init /\ [][NextReservations]_vars

(* ---------------- calls without an outstanding reservation ------------- *)

\* size_t arithmetic wraps at 2^(8 * sizeof(size_t)), with 8 bytes scaled
\* like the operand widths
SizeTModulus == 2 ^ (8 * kBitsPerByte)

\* reserved_-- with the DCHECK of Unreserve compiled out
UnreserveUnchecked(rs, i) == [rs EXCEPT ![i] = (@ - 1) % SizeTModulus]

\* available() as the size_t expression computes it
availableUnchecked(cs, rs, i) ==
  (capacity(i) - rs[i] - SliceSize(cs, i)) % SizeTModulus

\* AllocateIndex over size_t values
AllocateIndexSliceUnchecked(cs, rs) ==
  IF availableUnchecked(cs, rs, 0) > 0 THEN 0
  ELSE IF availableUnchecked(cs, rs, 1) > 0 THEN 1
  ELSE 2

\* DCHECK_GT(reserved_, 0u) fails in a build that compiles the DCHECKs in:
\* the process stops with the builder as it was
DCheckFails(os, object) ==
  /\ last' = Call("Fatal", os, NoIndex, object, NoIndex, <<>>)
  /\ UNCHANGED <<constants_, reserved_, constants_map_>>

\* DiscardReservedEntry(operand_size) with reserved_ = 0 in that slice: the
\* DCHECK stops a debug build; a release build decrements the size_t.
DiscardReservedEntryUnmatched(os) ==
  LET slice == OperandSizeToSlice(os)
  IN  /\ reserved_[slice] = 0
      /\ \/ DCheckFails(os, the_hole_value)
         \/ /\ reserved_' = UnreserveUnchecked(reserved_, slice)
            /\ last' = Call("DiscardReservedEntry", os, NoIndex,
                            the_hole_value, NoIndex, <<>>)
            /\ UNCHANGED <<constants_, constants_map_>>

\* CommitReservedEntry(operand_size, object) with reserved_ = 0 in that
\* slice: the DCHECK stops a debug build; a release build decrements the
\* size_t and goes on to look the object up and to allocate.
CommitReservedEntryUnmatched(os, object) ==
  LET slice == OperandSizeToSlice(os)
      rs == UnreserveUnchecked(reserved_, slice)
      first == AllocateIndexSliceUnchecked(constants_, rs)
  IN  /\ reserved_[slice] = 0
      /\ \/ DCheckFails(os, object)
         \/ /\ reserved_' = rs
            /\ IF object \notin DOMAIN constants_map_
               THEN /\ availableUnchecked(constants_, rs, first) > 0
                    /\ TotalSize(constants_) < MaxConstants
                    /\ constants_' = Allocate(constants_, first, object)
                    /\ constants_map_' =
                         (object :> AllocateIndexOf(constants_, first))
                           @@ constants_map_
               ELSE IF constants_map_[object] > max_index(slice)
               THEN /\ TotalSize(constants_) < MaxConstants
                    /\ constants_' = Allocate(constants_, slice, object)
                    /\ constants_map_' =
                         (object :> AllocateIndexOf(constants_, slice))
                           @@ constants_map_
               ELSE UNCHANGED <<constants_, constants_map_>>
            /\ last' = Call("CommitReservedEntry", os, NoIndex, object,
                            constants_map_'[object], <<>>)

\* the process has not stopped and no call has broken the reservation
\* protocol; what a release build does after such a call is not followed
Running ==
  /\ last.op # "Fatal"
  /\ \A i \in Slices : reserved_[i] <= capacity(i)

\* the operations of Next while the process runs
NextRunning == Running /\ Next

NextUnchecked ==
  \/ NextRunning
  \/ \E os \in OperandSizes : Running /\ DiscardReservedEntryUnmatched(os)
  \/ \E os \in OperandSizes, object \in Values :
       Running /\ CommitReservedEntryUnmatched(os, object)

SpecUnchecked == Init /\ [][NextUnchecked]_vars

(* ------------------------------ properties ---------------------------- *)

\* the slice an operand size of the last call stands for
LastSlice == OperandSizeToSlice(last.operand_size)

\* a slot that holds a constant keeps it over the step (At reads constants_
\* alone, so only the steps that change constants_ are looked at)
FilledSlotsKept ==
  constants_' # constants_ =>
    \A s \in Slices :
      \A i \in start_index(s) ..
                (start_index(s) + SliceSize(constants_, s) - 1) :
        At(constants_, i) # the_hole_value
          => At(constants_', i) = At(constants_, i)

\* a slot changes in no step but the InsertAllocatedEntry of its index, which
\* finds the hole there and stores its value
SlotChangedByInsertAllocatedEntry ==
  constants_' # constants_ =>
    \A s \in Slices :
      \A i \in start_index(s) ..
                (start_index(s) + SliceSize(constants_, s) - 1) :
        At(constants_', i) # At(constants_, i)
          => /\ At(constants_, i) = the_hole_value
             /\ last'.op = "InsertAllocatedEntry"
             /\ last'.index = i
             /\ At(constants_', i) = last'.object

\* C1: once a value is registered, every Insert of it returns the registered
\* index, and the registered index of a value changes in no step but a
\* CommitReservedEntry of that same value: Insert, AllocateEntry,
\* InsertAllocatedEntry, CreateReservedEntry, DiscardReservedEntry and the
\* commits of other values leave the index Insert returns as it is.
InsertReturnsSameIndex ==
  /\ [](last.op = "Insert"
          => /\ last.object \in DOMAIN constants_map_
             /\ constants_map_[last.object] = last.ret)
  /\ [][\A v \in DOMAIN constants_map_ :
          /\ v \in DOMAIN constants_map_'
          /\ (last'.op = "Insert" /\ last'.object = v
                => last'.ret = constants_map_[v])
          /\ (constants_map_'[v] # constants_map_[v]
                => /\ last'.op = "CommitReservedEntry"
                   /\ last'.object = v)]_vars

\* C1 witness: Insert returned index 0 when slot 1 was already filled, so the
\* value was found in the map, with a reservation outstanding in between.
InsertRepeated ==
  /\ last.op = "Insert"
  /\ last.ret = 0
  /\ SliceSize(constants_, 0) = 2
  /\ TotalReserved(reserved_) > 0

\* C2: the index CommitReservedEntry(w, v) returns is at most the max index
\* of the slice of operand size w.
CommitFitsOperandSize ==
  last.op = "CommitReservedEntry" => last.ret <= max_index(LastSlice)

\* C2 witness: a commit of a short reservation answered with an index of the
\* byte slice.
CommitLandedNarrower ==
  /\ last.op = "CommitReservedEntry"
  /\ last.operand_size = "kShort"
  /\ IndexToSlice(last.ret) = 0

\* C3: in each slice reserved + size never exceeds the capacity, which is to
\* say that available() is never negative.
ReservedWithinCapacity ==
  \A i \in Slices :
    /\ reserved_[i] >= 0
    /\ reserved_[i] + SliceSize(constants_, i) <= capacity(i)
    /\ available(constants_, reserved_, i) >= 0

\* C3 witness: the byte slice is full, partly by a constant and partly by a
\* reservation, after a commit.
SliceFullOfBoth ==
  /\ last.op = "CommitReservedEntry"
  /\ reserved_[0] > 0
  /\ SliceSize(constants_, 0) > 0
  /\ reserved_[0] + SliceSize(constants_, 0) = capacity(0)

\* every slot handed out by AllocateEntry() has been filled
NoEntryLeftUnfilled ==
  \A i \in Allocated(constants_) : At(constants_, i) # the_hole_value

\* C4: ToFixedArray() passes all its DCHECKs and returns an array of length
\* size() whose entry at every index i < size() is At(i).  Stated for the
\* states in which no allocated entry is left unfilled, which are among the
\* states the claim speaks of.
SerializeMatchesAt ==
  NoEntryLeftUnfilled
    => LET result == ToFixedArray(constants_)
       IN  /\ result.dchecks
           /\ Len(result.array) = size(constants_)
           /\ \A i \in 0 .. (size(constants_) - 1) :
                result.array[i + 1] = At(constants_, i)

\* C5: within each slice no two slots hold the same constant (the holes of
\* unfilled entries are left aside).
SliceValuesDistinct ==
  \A i \in Slices :
    \A p, q \in 1 .. Len(constants_[i]) :
      (p # q /\ constants_[i][p] # the_hole_value)
        => constants_[i][p] # constants_[i][q]

\* C6: the index Insert or CommitReservedEntry returns for a value holds that
\* value, and a slot that holds a value holds it in every later state.
IndicesStable ==
  /\ [](last.op \in {"Insert", "CommitReservedEntry"}
          => At(constants_, last.ret) = last.object)
  /\ [][FilledSlotsKept]_vars

\* C6 witness: a commit stored a second copy of a value and re-pointed the
\* map, and the slot of the wider slice still holds the value.
SecondCopyStored ==
  /\ last.op = "CommitReservedEntry"
  /\ constants_map_[last.object] = last.ret
  /\ \E j \in Allocated(constants_) :
       /\ IndexToSlice(j) > IndexToSlice(last.ret)
       /\ At(constants_, j) = last.object

\* C7: no two values are registered at the same index, so Insert of two
\* different values returns two different indices.
MapInjective ==
  \A v1, v2 \in DOMAIN constants_map_ :
    v1 # v2 => constants_map_[v1] # constants_map_[v2]

\* C7 witness: two values are registered, in two different slices, the
\* second by an Insert.
TwoValuesRegistered ==
  /\ last.op = "Insert"
  /\ \E v \in DOMAIN constants_map_ :
       /\ v # last.object
       /\ IndexToSlice(constants_map_[v]) # IndexToSlice(last.ret)

\* C8: for every index inside the capacity range of a slice and beyond its
\* filled range, At(index) passes its DCHECK and returns the hole.
AtUnfilledReturnsHole ==
  \A i \in Slices :
    \A index \in (start_index(i) + SliceSize(constants_, i)) .. max_index(i) :
      /\ AtDChecks(constants_, index)
      /\ At(constants_, index) = the_hole_value

\* C9: the index AllocateEntry() returns is a filled slot holding the hole;
\* the slot changes in no step but the InsertAllocatedEntry of its index,
\* which stores its value there; and from then on no step changes it.
AllocatedEntryFilledOnce ==
  /\ [](last.op = "AllocateEntry"
          => /\ SliceAtPre(constants_, IndexToSlice(last.ret), last.ret)
             /\ At(constants_, last.ret) = the_hole_value)
  /\ [](last.op = "InsertAllocatedEntry"
          => At(constants_, last.index) = last.object)
  /\ [][SlotChangedByInsertAllocatedEntry]_vars

\* C9 witness: an allocated entry was filled while an entry allocated before
\* it is still unfilled.
EntryFilledOtherPending ==
  /\ last.op = "InsertAllocatedEntry"
  /\ \E j \in Allocated(constants_) :
       /\ j < last.index
       /\ At(constants_, j) = the_hole_value

\* C10 as written: after DiscardReservedEntry(w) the slice of w has no more
\* available slots than it had while the reservation was outstanding.
DiscardAbandonsSlot ==
  [][last'.op = "DiscardReservedEntry"
       => available(constants_', reserved_', OperandSizeToSlice(last'.operand_size))
            <= available(constants_, reserved_, OperandSizeToSlice(last'.operand_size))]_vars

\* C10 amended: DiscardReservedEntry(w) lowers the reserved count of the
\* slice of w by one and changes nothing else, so that slice has one more
\* available slot than before, which later calls may hand out.
DiscardReleasesSlot ==
  [][last'.op = "DiscardReservedEntry"
       => LET slice == OperandSizeToSlice(last'.operand_size)
          IN  /\ reserved_' = [reserved_ EXCEPT ![slice] = @ - 1]
              /\ available(constants_', reserved_', slice)
                   = available(constants_, reserved_, slice) + 1
              /\ UNCHANGED <<constants_, constants_map_>>]_vars

\* C10 witness: after a discard the byte slice has a slot available again
\* while the short slice already holds a constant.
DiscardFreedNarrowSlot ==
  /\ last.op = "DiscardReservedEntry"
  /\ last.operand_size = "kByte"
  /\ available(constants_, reserved_, 0) > 0
  /\ SliceSize(constants_, 1) > 0

\* C11: a CommitReservedEntry(w, X) of a value X registered at an index above
\* the max index of the slice of w appends X to that slice, returns the index
\* of the new slot, leaves the slot X was registered at holding X, and
\* registers X at the new index, which is what Insert(X) returns from then on.
CommitCopiesIntoReservedSlice ==
  [][(/\ last'.op = "CommitReservedEntry"
      /\ last'.object \in DOMAIN constants_map_
      /\ constants_map_[last'.object]
           > max_index(OperandSizeToSlice(last'.operand_size)))
       => LET slice == OperandSizeToSlice(last'.operand_size)
              X == last'.object
              old == constants_map_[X]
          IN  /\ last'.ret = start_index(slice) + SliceSize(constants_, slice)
              /\ IndexToSlice(last'.ret) = slice
              /\ constants_' =
                   [constants_ EXCEPT ![slice] = Append(@, X)]
              /\ At(constants_', last'.ret) = X
              /\ At(constants_, old) = X
              /\ At(constants_', old) = X
              /\ constants_map_' = (X :> last'.ret) @@ constants_map_
              /\ constants_map_'[X] = last'.ret]_vars

\* C11 witness: a commit of a short reservation returned an index of the
\* short slice for a value that the quad slice holds as well.
QuadValueCopiedIntoShortSlice ==
  /\ last.op = "CommitReservedEntry"
  /\ last.operand_size = "kShort"
  /\ IndexToSlice(last.ret) = 1
  /\ \E p \in 1 .. Len(constants_[2]) : constants_[2][p] = last.object

\* size() is 0 when no slot is filled, and otherwise one more than the
\* largest index of a filled slot
SizeIsPastLastSlot ==
  /\ (size(constants_) = 0) <=> (TotalSize(constants_) = 0)
  /\ \A s \in Slices :
       SliceSize(constants_, s) > 0
         => start_index(s) + SliceSize(constants_, s) <= size(constants_)
  /\ size(constants_) > 0
       => SliceAtPre(constants_, IndexToSlice(size(constants_) - 1),
                     size(constants_) - 1)

\* C12: size() is one more than the largest index an allocation has handed
\* out and 0 when there was none; it never goes down; creating or discarding
\* a reservation leaves it as it is; and an Insert that allocates while no
\* reservation is outstanding and the filled slots have no gap raises it by
\* one, to the number of filled slots (N after N such Inserts).
SizeIsOnePastLargestIndex ==
  /\ [](SizeIsPastLastSlot
          /\ (last.op \in {"Insert", "AllocateEntry", "CommitReservedEntry"}
                => last.ret < size(constants_)))
  /\ [][/\ size(constants_') >= size(constants_)
        /\ (last'.op \in {"CreateReservedEntry", "DiscardReservedEntry"}
              => size(constants_') = size(constants_))
        /\ (/\ last'.op = "Insert"
            /\ constants_' # constants_
            /\ TotalReserved(reserved_) = 0
            /\ size(constants_) = TotalSize(constants_))
             => /\ size(constants_') = size(constants_) + 1
                /\ size(constants_') = TotalSize(constants_')
                /\ last'.ret = size(constants_)]_vars

\* C12 witness: an Insert got the last index below size() while reservations
\* had left a gap, so that size() is larger than the number of filled slots.
SizeCountsGap ==
  /\ last.op = "Insert"
  /\ last.ret = size(constants_) - 1
  /\ size(constants_) > TotalSize(constants_)
  /\ TotalSize(constants_) >= 2

\* the slices that have one slot more after the step
Grown == {s \in Slices : Len(constants_'[s]) > Len(constants_[s])}

\* C13: no slice ever loses a slot; a step fills at most one new slot, and
\* the call that fills it is an allocation returning the index of that slot,
\* which is the next index of its slice after the ones handed out before
\* (start_index for the first), lies inside the range of that slice and of no
\* other, and was not filled before.
IndicesUniqueAndConsecutive ==
  /\ [](\A s \in Slices :
          /\ start_index(s) + SliceSize(constants_, s) <= max_index(s) + 1
          /\ s < 2 => max_index(s) + 1 = start_index(s + 1))
  /\ [][constants_' # constants_ =>
          /\ \A s \in Slices : Len(constants_'[s]) >= Len(constants_[s])
          /\ Cardinality(Grown) <= 1
          /\ \A s \in Grown :
               /\ Len(constants_'[s]) = Len(constants_[s]) + 1
               /\ last'.op \in {"Insert", "AllocateEntry",
                                 "CommitReservedEntry"}
               /\ last'.ret = start_index(s) + Len(constants_[s])
               /\ last'.ret >= start_index(s)
               /\ last'.ret <= max_index(s)
               /\ IndexToSlice(last'.ret) = s
               /\ ~SliceAtPre(constants_, s, last'.ret)
               /\ SliceAtPre(constants_', s, last'.ret)]_vars

\* C13 witness: AllocateEntry() handed out the last index of the short slice.
LastShortIndexAllocated ==
  /\ last.op = "AllocateEntry"
  /\ last.ret = max_index(1)
  /\ SliceSize(constants_, 1) = capacity(1)

\* C14: while a reservation of operand size w is outstanding, the call
\* CommitReservedEntry(w, v) passes every capacity check on its way, for
\* every value v (as long as the model lets one more slot be filled).
ReservationGuaranteesCommit ==
  \A os \in OperandSizes, v \in Values :
    (/\ reserved_[OperandSizeToSlice(os)] > 0
     /\ TotalSize(constants_) < MaxConstants)
      => ENABLED CommitReservedEntry(os, v)

\* C14 witness: a commit of a byte reservation filled the last free slot of
\* the byte slice, which had no slot available while the reservation was
\* outstanding, the short slice being in use already.
CommitUsedReservedSlot ==
  /\ last.op = "CommitReservedEntry"
  /\ last.operand_size = "kByte"
  /\ last.ret = start_index(0) + SliceSize(constants_, 0) - 1
  /\ available(constants_, reserved_, 0) = 0
  /\ SliceSize(constants_, 1) > 0

\* no slice narrower than k has a slot available before the step
NarrowerExhausted(k) ==
  \A j \in Slices : j < k => available(constants_, reserved_, j) = 0

\* C15: CreateReservedEntry() reserves in a slice only when every narrower
\* slice has nothing available, and so does every call that fills a new slot
\* (Insert of an unregistered value, AllocateEntry(), the commit of an
\* unregistered value), the one exception being the commit that copies a
\* value registered above the max index of the reserved slice.
NarrowSlicesExhaustedFirst ==
  [][/\ last'.op = "CreateReservedEntry"
         => LET r == OperandSizeToSlice(last'.operand_size)
            IN  /\ reserved_' = [reserved_ EXCEPT ![r] = @ + 1]
                /\ available(constants_, reserved_, r) > 0
                /\ NarrowerExhausted(r)
     /\ constants_' # constants_ =>
          \A k \in Grown :
            \/ NarrowerExhausted(k)
            \/ /\ last'.op = "CommitReservedEntry"
               /\ k = OperandSizeToSlice(last'.operand_size)
               /\ last'.object \in DOMAIN constants_map_
               /\ constants_map_[last'.object] > max_index(k)]_vars

\* C15 witness: AllocateEntry() landed in the quad slice, the byte and the
\* short slice having nothing available.
AllocatedInQuadSlice ==
  /\ last.op = "AllocateEntry"
  /\ IndexToSlice(last.ret) = 2
  /\ available(constants_, reserved_, 0) = 0
  /\ available(constants_, reserved_, 1) = 0

\* C16: a CommitReservedEntry(w, v) of a value registered at an index that
\* is at most the max index of the slice of w returns that index, lowers the
\* reserved count of that slice by one and changes nothing else: no slice
\* gets a slot, and the constants, the map and size() stay as they are.
CommitReusesRegisteredIndex ==
  [][(/\ last'.op = "CommitReservedEntry"
      /\ last'.object \in DOMAIN constants_map_
      /\ constants_map_[last'.object]
           <= max_index(OperandSizeToSlice(last'.operand_size)))
       => /\ last'.ret = constants_map_[last'.object]
          /\ reserved_' =
               [reserved_ EXCEPT
                  ![OperandSizeToSlice(last'.operand_size)] = @ - 1]
          /\ constants_' = constants_
          /\ constants_map_' = constants_map_
          /\ size(constants_') = size(constants_)]_vars

\* C16 witness: a commit of a short reservation returned index 0 while the
\* byte slice holds two slots, so that slot 0 was filled before the commit.
ShortCommitReusedByteIndex ==
  /\ last.op = "CommitReservedEntry"
  /\ last.operand_size = "kShort"
  /\ last.ret = 0
  /\ SliceSize(constants_, 0) = 2

\* C17: AllocateEntry() and InsertAllocatedEntry leave the map as it is, so
\* a value stored by InsertAllocatedEntry alone is not registered; and the
\* Insert of a value that is not registered fills a slot that was not filled
\* before with it, returns and registers the index of that slot, and leaves
\* every slot filled before as it was, a slot holding the same value too.
AllocatedEntryBypassesMap ==
  [][/\ last'.op \in {"AllocateEntry", "InsertAllocatedEntry"}
         => constants_map_' = constants_map_
     /\ (last'.op = "Insert" /\ last'.object \notin DOMAIN constants_map_)
         => /\ Cardinality(Grown) = 1
            /\ \A s \in Grown :
                 /\ last'.ret = start_index(s) + Len(constants_[s])
                 /\ constants_'[s] = Append(constants_[s], last'.object)
            /\ \A s \in Slices \ Grown : constants_'[s] = constants_[s]
            /\ ~SliceAtPre(constants_, IndexToSlice(last'.ret), last'.ret)
            /\ At(constants_', last'.ret) = last'.object
            /\ constants_map_' = (last'.object :> last'.ret) @@ constants_map_
    ]_vars

\* C17 witness: Insert returned index 1 for a value that slot 0, filled by
\* InsertAllocatedEntry, holds as well, and registered it at 1.
ValueStoredTwiceInSlice ==
  /\ last.op = "Insert"
  /\ last.ret = 1
  /\ constants_[0] = <<last.object, last.object>>
  /\ constants_map_[last.object] = 1

\* C18: every index registered in the map lies in the filled range of its
\* slice, and At of it is the value it is registered for, never the hole.
MapPointsAtItsValue ==
  \A v \in DOMAIN constants_map_ :
    /\ v # the_hole_value
    /\ SliceAtPre(constants_, IndexToSlice(constants_map_[v]),
                  constants_map_[v])
    /\ AtDChecks(constants_, constants_map_[v])
    /\ At(constants_, constants_map_[v]) = v

\* C18 witness: two values are registered, and InsertAllocatedEntry has just
\* stored one of them in a slot other than the one it is registered at.
RegisteredValueAlsoInAllocatedEntry ==
  /\ last.op = "InsertAllocatedEntry"
  /\ Cardinality(DOMAIN constants_map_) = 2
  /\ last.object \in DOMAIN constants_map_
  /\ constants_map_[last.object] # last.index

\* the positions of slice s that hold v
Copies(s, v) == {p \in 1 .. Len(constants_[s]) : constants_[s][p] = v}

\* C19: without AllocateEntry() and InsertAllocatedEntry, the slice of the
\* index registered for a value never gets wider, and a change of the
\* registered index moves it to a strictly narrower slice; every slice holds
\* a value at most once (AllElementsAreUnique), so a value is stored at most
\* three times.
RepointOnlyNarrower ==
  /\ [](\A s \in Slices :
          /\ AllElementsAreUnique(constants_, s)
          /\ \A v \in Values : Cardinality(Copies(s, v)) <= 1)
  /\ [](\A v \in Values :
          Cardinality(Copies(0, v)) + Cardinality(Copies(1, v))
            + Cardinality(Copies(2, v)) <= 3)
  /\ [][\A v \in DOMAIN constants_map_ :
          /\ v \in DOMAIN constants_map_'
          /\ IndexToSlice(constants_map_'[v])
               <= IndexToSlice(constants_map_[v])
          /\ constants_map_'[v] # constants_map_[v]
               => IndexToSlice(constants_map_'[v])
                    < IndexToSlice(constants_map_[v])]_vars

\* C19 witness: Insert returned the index of the byte slice a value was
\* re-pointed to, the short slice holding the first copy of that value.
InsertAfterRepoint ==
  /\ last.op = "Insert"
  /\ IndexToSlice(last.ret) = 0
  /\ Copies(0, last.object) # {}
  /\ Copies(1, last.object) # {}

\* C20: a DiscardReservedEntry or CommitReservedEntry for a slice without an
\* outstanding reservation stops the process: no state is reached in which
\* the reserved count of a slice has wrapped around, and none in which such
\* a commit has returned.
ReservationMismatchIsFatal ==
  /\ \A i \in Slices :
       /\ reserved_[i] >= 0
       /\ reserved_[i] + SliceSize(constants_, i) <= capacity(i)
  /\ last.op \in {"DiscardReservedEntry", "CommitReservedEntry"}
       => reserved_[LastSlice] < SizeTModulus - 1

====
